---- MODULE Spec2Model ----
(***************************************************************************)
(* Model of run_page/gpxtrackposter/track.py: the Track object, its four   *)
(* loaders (GPX, TCX, FIT, database activity), append, and the cache codec *)
(* (store_cache / load_cache).                                             *)
(*                                                                         *)
(* Representation                                                          *)
(*   - Python None is the empty sequence, a present value v is <<v>>.      *)
(*   - datetimes are integers in milliseconds; a "%Y-%m-%d %H:%M:%S"       *)
(*     string is the integer number of whole seconds it denotes.           *)
(*   - timedeltas are integer seconds; lengths and distances are integers. *)
(*   - a speed is an exact fraction <<numerator, denominator>> in lowest   *)
(*     terms (the code divides floats; rounding of floats is not           *)
(*     modelled).                                                          *)
(*   - coordinates are integers in units of 1e-5 degree, the resolution of *)
(*     the polyline codec; s2.LatLng objects are records [lat, lng], the   *)
(*     entries of polyline_container are pairs <<lat, lng>>.               *)
(*   - a dict is a function whose DOMAIN is the set of its keys.           *)
(*   - the attributes type, source, name, average_heartrate and            *)
(*     start_latlng are not modelled.                                      *)
(***************************************************************************)
EXTENDS Integers, Sequences, FiniteSets, TLC

VARIABLES
    IGNORE_BEFORE_SAVING,  \* module constant read from the environment
    track,                 \* the Track object the caller works on
    phase,                 \* where the caller is in the track's life cycle
    call,                  \* the last call made on track: [op, arg]
    before,                \* track as it was when that call started
    reported,              \* what that call printed ("" if nothing)
    raised,                \* the exception that call let escape ("" if none)
    lib_calls,             \* library parse/read routines invoked so far
    orig,                  \* [track, by, ok]: track as loader `by` left it
    donors,                \* the tracks passed to append since, in order
    appends,               \* append calls made so far
    dir_exists,            \* whether the cache file's directory exists
    cache_file,            \* content of the cache file (None: no file)
    stored,                \* [track, by, ok]: the track last given to store_cache
    w_pc,                  \* concurrent writer: position inside store_cache
    w_written,             \* concurrent writer: chunks handed to the file object
    old_doc,               \* file content when the running store_cache began
    observed               \* what the concurrent reader's last read returned

vars == <<IGNORE_BEFORE_SAVING, track, phase, call, before, reported, raised,
          lib_calls, orig, donors, appends, dir_exists, cache_file, stored, w_pc,
          w_written, old_doc, observed>>

----------------------------------------------------------------------------
(* Bounds of the model *)

MaxRecords == 2     \* position records in a FIT file
MaxAppends == 2     \* append calls on one track

----------------------------------------------------------------------------
(* Python values *)

None == <<>>
Some(v) == <<v>>
Truthy(o) == o # None /\ o[1] # 0     \* bool(x) for an optional number

RECURSIVE Gcd(_, _)
Gcd(a, b) == IF b = 0 THEN a ELSE Gcd(b, a % b)

\* n / d for d > 0, as an exact fraction in lowest terms
Ratio(n, d) == LET g == Gcd(n, d) IN <<n \div g, d \div g>>

EmptyDict == [k \in {} |-> 0]
HasKey(d, k) == k \in DOMAIN d
SetKey(d, k, v) == [x \in (DOMAIN d) \cup {k} |-> IF x = k THEN v ELSE d[x]]

RECURSIVE Flatten(_)
Flatten(ss) == IF ss = <<>> THEN <<>> ELSE Head(ss) \o Flatten(Tail(ss))

Abs(x) == IF x < 0 THEN -x ELSE x

----------------------------------------------------------------------------
(* polyline codec: a path is the sequence of coordinate differences *)

encode(coords) ==
    [i \in 1..Len(coords) |->
        IF i = 1 THEN coords[1]
        ELSE <<coords[i][1] - coords[i-1][1], coords[i][2] - coords[i-1][2]>>]

RECURSIVE decode(_)
decode(str) ==
    IF str = <<>> THEN <<>>
    ELSE LET init == decode(SubSeq(str, 1, Len(str) - 1))
             d == str[Len(str)]
         IN IF init = <<>> THEN <<d>>
            ELSE Append(init, <<init[Len(init)][1] + d[1],
                                init[Len(init)][2] + d[2]>>)

from_degrees(lat, lng) == [lat |-> lat, lng |-> lng]

----------------------------------------------------------------------------
(* Track.__init__ *)

NewTrack ==
    [file_names |-> <<>>,
     polylines |-> <<>>,
     polyline_str |-> <<>>,
     start_time |-> None,
     end_time |-> None,
     start_time_local |-> None,
     end_time_local |-> None,
     length |-> 0,
     special |-> FALSE,
     moving_dict |-> EmptyDict,
     run_id |-> 0,
     polyline_container |-> None]   \* the attribute does not exist yet

\* the result of a method: the object as the method left it, the exception
\* it ended with ("" if none), and the library routines it invoked
Result(t, e, l) == [track |-> t, err |-> e, lib |-> l]

----------------------------------------------------------------------------
(* Collaborators outside track.py *)

\* utils.parse_datetime_to_local(start, end, hint): the two instants moved by
\* the time-zone offset tz of the recording's location; None stands for the
\* exception it ends with when an instant is missing
parse_datetime_to_local(start, end, tz) ==
    IF start = None \/ end = None THEN None
    ELSE Some(<<Some(start[1] + tz), Some(end[1] + tz)>>)

RECURSIVE Pick(_, _, _)
Pick(s, I, i) ==
    IF i > Len(s) THEN <<>>
    ELSE (IF i \in I THEN <<s[i]>> ELSE <<>>) \o Pick(s, I, i + 1)

\* polyline_processor.filter_out(path): the paths it may return, the empty
\* path unchanged, any other path with some of its points removed
filter_out(path) ==
    IF path = <<>> THEN {path}
    ELSE {encode(Pick(decode(path), I, 1)) : I \in SUBSET (1..Len(path))}

\* gpx.length_2d(): the distances between consecutive points of each segment,
\* summed (here the distance of two points is |dlat| + |dlng|)
RECURSIVE SegLength(_)
SegLength(seg) ==
    IF Len(seg) < 2 THEN 0
    ELSE Abs(seg[2][1] - seg[1][1]) + Abs(seg[2][2] - seg[1][2])
         + SegLength(Tail(seg))

RECURSIVE length_2d(_)
length_2d(segments) ==
    IF segments = <<>> THEN 0
    ELSE SegLength(Head(segments)) + length_2d(Tail(segments))

----------------------------------------------------------------------------
(* GPX *)

_get_moving_data(gpx) ==
    [distance |-> gpx.moving.moving_distance,
     moving_time |-> gpx.moving.moving_time,
     elapsed_time |-> gpx.moving.moving_time + gpx.moving.stopped_time,
     average_speed |->
        IF gpx.moving.moving_time # 0
        THEN Ratio(gpx.moving.moving_distance, gpx.moving.moving_time)
        ELSE <<0, 1>>]

\* gpx.segments are the segments of all tracks, in order, as gpx.simplify()
\* leaves them
GpxPolylines(gpx) ==
    [i \in 1..Len(gpx.segments) |->
        [j \in 1..Len(gpx.segments[i]) |->
            from_degrees(gpx.segments[i][j][1], gpx.segments[i][j][2])]]

_load_gpx_data(self, gpx, tz) ==
    LET t1 == [self EXCEPT !.start_time = gpx.time_bounds[1],
                           !.end_time = gpx.time_bounds[2]]
        local == parse_datetime_to_local(t1.start_time, t1.end_time, tz)
    IN  IF t1.start_time = None
        THEN Result(t1, "TypeError", {})        \* datetime.timestamp(None)
        ELSE LET t2 == [t1 EXCEPT !.run_id = t1.start_time[1]] IN
        IF local = None
        THEN Result(t2, "TypeError", {})
        ELSE LET t3 == [t2 EXCEPT !.start_time_local = local[1][1],
                                  !.end_time_local = local[1][2]] IN
        IF t3.start_time = None
        THEN Result(t3, "Track has no start time.", {})
        ELSE IF t3.end_time = None
        THEN Result(t3, "Track has no end time.", {})
        ELSE LET t4 == [t3 EXCEPT !.length = length_2d(gpx.segments)] IN
        IF t4.length = 0
        THEN Result(t4, "Track is empty.", {})
        ELSE LET polyline_container == Flatten(gpx.segments) IN
             Result([t4 EXCEPT
                       !.polylines = @ \o GpxPolylines(gpx),
                       !.polyline_container =
                           IF gpx.segments = <<>> THEN @
                           ELSE Some(polyline_container),
                       !.polyline_str = encode(polyline_container),
                       !.moving_dict = _get_moving_data(gpx)],
                    "", {})

\* a file is [name, size, parsed]: parsed is what the format library makes
\* of it, None when the library raises
load_gpx(self, file, tz) ==
    LET t1 == [self EXCEPT !.file_names = <<file.name>>] IN
    IF file.size = 0
    THEN Result(t1, "Empty GPX file", {})
    ELSE IF file.parsed = None
    THEN Result(t1, "GPXException", {<<"gpxpy.parse", file.name>>})
    ELSE LET r == _load_gpx_data(t1, file.parsed[1], tz) IN
         Result(r.track, r.err, {<<"gpxpy.parse", file.name>>})

----------------------------------------------------------------------------
(* TCX: the class defines no _load_tcx_data, and Python looks the method   *)
(* up before it evaluates the argument tcx.read(file_name)                 *)

load_tcx(self, file) ==
    LET t1 == [self EXCEPT !.file_names = <<file.name>>] IN
    IF file.size = 0
    THEN Result(t1, "Empty TCX file", {})
    ELSE Result(t1, "AttributeError", {})

----------------------------------------------------------------------------
(* FIT *)

\* one iteration of the loop over fit.records; st is [track, polys, err]
FitMessage(st, message) ==
    LET self == st.track IN
    IF st.err # "" THEN st
    ELSE IF message.kind = "record"
    THEN IF Truthy(message.position_lat) /\ Truthy(message.position_long)
         THEN [st EXCEPT
                 !.polys = Append(@, from_degrees(message.position_lat[1],
                                                  message.position_long[1])),
                 !.track.polyline_container =
                     Some(Append(@[1], <<message.position_lat[1],
                                         message.position_long[1]>>))]
         ELSE st
    ELSE IF message.kind = "session"
    THEN LET t1 == [self EXCEPT
                      !.start_time = Some(message.start_time),
                      !.run_id = message.start_time,
                      !.end_time = Some(message.start_time
                                        + message.total_elapsed_time * 1000),
                      !.length = message.total_distance,
                      !.moving_dict =
                          SetKey(@, "distance", message.total_distance)]
             seconds == IF Truthy(message.total_moving_time)
                        THEN message.total_moving_time
                        ELSE message.total_timer_time
             speed == IF Truthy(message.enhanced_avg_speed)
                      THEN message.enhanced_avg_speed
                      ELSE message.avg_speed
         IN IF seconds = None
            THEN [st EXCEPT !.track = t1, !.err = "TypeError"]
            ELSE [st EXCEPT !.track =
                    [t1 EXCEPT !.moving_dict =
                        SetKey(SetKey(SetKey(@,
                            "moving_time", seconds[1]),
                            "elapsed_time", message.total_elapsed_time),
                            "average_speed",
                            IF speed = None THEN None ELSE <<speed[1], 1>>)]]
    ELSE st

RECURSIVE FitLoop(_, _)
FitLoop(st, records) ==
    IF records = <<>> THEN st
    ELSE FitLoop(FitMessage(st, Head(records)), Tail(records))

_load_fit_data(self, fit, tz) ==
    LET st == FitLoop([track |-> [self EXCEPT !.polyline_container = Some(<<>>)],
                       polys |-> <<>>, err |-> ""], fit)
        t1 == st.track
        local == parse_datetime_to_local(t1.start_time, t1.end_time, tz)
    IN  IF st.err # "" THEN Result(t1, st.err, {})
        ELSE IF t1.polyline_container[1] = <<>>
        THEN Result(t1, "IndexError", {})
        ELSE IF local = None
        THEN Result(t1, "TypeError", {})
        ELSE Result([t1 EXCEPT
                       !.start_time_local = local[1][1],
                       !.end_time_local = local[1][2],
                       !.polylines = Append(@, st.polys),
                       !.polyline_str = encode(t1.polyline_container[1])],
                    "", {})

\* load_fit with the library called before the size check
load_fit_parse_first(self, file, tz) ==
    LET t1 == [self EXCEPT !.file_names = <<file.name>>]
        lib == {<<"FitFile.from_file", file.name>>}
    IN  IF file.parsed = None
        THEN Result(t1, "FitError", lib)
        ELSE IF file.size = 0
        THEN Result(t1, "Empty FIT file", lib)
        ELSE LET r == _load_fit_data(t1, file.parsed[1], tz) IN
             Result(r.track, r.err, lib)

load_fit(self, file, tz) ==
    LET t1 == [self EXCEPT !.file_names = <<file.name>>] IN
    IF file.size = 0
    THEN Result(t1, "Empty FIT file", {})
    ELSE IF file.parsed = None
    THEN Result(t1, "FitError", {<<"FitFile.from_file", file.name>>})
    ELSE LET r == _load_fit_data(t1, file.parsed[1], tz) IN
         Result(r.track, r.err, {<<"FitFile.from_file", file.name>>})

----------------------------------------------------------------------------
(* Database activity *)

\* bool(IGNORE_BEFORE_SAVING) for os.getenv's result env: None when the
\* variable is unset (the default False), else the variable's string
IgnoreBeforeSaving(env) == env # None /\ env # Some("")

\* filtered is what filter_out returns for activity.summary_polyline
load_from_db(self, activity, ignore, filtered) ==
    LET start_time == activity.start_date_local * 1000
        t1 == [self EXCEPT
                 !.file_names = <<ToString(activity.run_id)>>,
                 !.start_time_local = Some(start_time),
                 !.end_time = Some(start_time + activity.elapsed_time * 1000),
                 !.length = activity.distance]
    IN  IF IgnoreBeforeSaving(ignore)
        THEN Result(t1, "UnboundLocalError", {})   \* summary_polyline unset
        ELSE LET polyline_data ==
                     IF filtered # <<>> THEN decode(filtered) ELSE <<>>
             IN Result([t1 EXCEPT
                          !.polylines =
                              <<[i \in 1..Len(polyline_data) |->
                                  from_degrees(polyline_data[i][1],
                                               polyline_data[i][2])]>>,
                          !.run_id = activity.run_id],
                       "", {})

----------------------------------------------------------------------------
(* bbox: the smallest rectangle holding every point of every segment,     *)
(* None for the empty rectangle                                            *)

bbox(self) ==
    LET pts == Flatten(self.polylines)
        I == 1..Len(pts)
    IN  IF pts = <<>> THEN None
        ELSE Some([lat_lo |-> CHOOSE v \in {pts[i].lat : i \in I} :
                                 \A i \in I : v <= pts[i].lat,
                   lat_hi |-> CHOOSE v \in {pts[i].lat : i \in I} :
                                 \A i \in I : v >= pts[i].lat,
                   lng_lo |-> CHOOSE v \in {pts[i].lng : i \in I} :
                                 \A i \in I : v <= pts[i].lng,
                   lng_hi |-> CHOOSE v \in {pts[i].lng : i \in I} :
                                 \A i \in I : v >= pts[i].lng])

----------------------------------------------------------------------------
(* append *)

MovingKeys == {"distance", "moving_time", "elapsed_time"}

\* the try block of append, entered with the track t1; err names the
\* exception the bare except caught (and reported), "" when the block ran
\* to its end
AppendTry(self, other, t1) ==
    LET Both(k) == HasKey(self.moving_dict, k) /\ HasKey(other.moving_dict, k)
        Add(t, k) == [t EXCEPT !.moving_dict[k] = @ + other.moving_dict[k]]
    IN  IF ~Both("distance") THEN Result(t1, "KeyError", {})
        ELSE LET t2 == Add(t1, "distance") IN
        IF ~Both("moving_time") THEN Result(t2, "KeyError", {})
        ELSE LET t3 == Add(t2, "moving_time") IN
        IF ~Both("elapsed_time") THEN Result(t3, "KeyError", {})
        ELSE LET t4 == Add(t3, "elapsed_time") IN
        IF t4.polyline_container = None \/ other.polyline_container = None
        THEN Result(t4, "AttributeError", {})
        ELSE LET t5 == [t4 EXCEPT !.polyline_container =
                            Some(@[1] \o other.polyline_container[1])]
                 t6 == [t5 EXCEPT !.polyline_str =
                            encode(t5.polyline_container[1])]
             IN
        IF t6.moving_dict["moving_time"] = 0
        THEN Result(t6, "ZeroDivisionError", {})
        ELSE Result([t6 EXCEPT
                       !.moving_dict =
                           SetKey(@, "average_speed",
                                  Ratio(t6.moving_dict["distance"],
                                        t6.moving_dict["moving_time"])),
                       !.file_names = @ \o other.file_names,
                       !.special = @ \/ other.special],
                    "", {})

\* append with the length assigned instead of added
append_length_assigned(self, other) ==
    AppendTry(self, other,
              [self EXCEPT !.end_time = other.end_time,
                           !.length = other.length])

\* append that also takes over the other track's segments
append_with_segments(self, other) ==
    AppendTry(self, other,
              [self EXCEPT !.end_time = other.end_time,
                           !.length = @ + other.length,
                           !.polylines = @ \o other.polylines])

append(self, other) ==
    AppendTry(self, other,
              [self EXCEPT !.end_time = other.end_time,
                           !.length = @ + other.length])

----------------------------------------------------------------------------
(* Cache codec *)

strftime(t) == t \div 1000        \* "%Y-%m-%d %H:%M:%S" drops the sub-second part
strptime(s) == s * 1000

CacheKeys == <<"start", "end", "start_local", "end_local", "length", "segments">>

\* the dict store_cache hands to json.dump, as the sequence of <<key, value>>
\* chunks json.dump writes; None when a strftime is called on None
CacheDocument(self) ==
    IF \/ self.start_time = None \/ self.end_time = None
       \/ self.start_time_local = None \/ self.end_time_local = None
    THEN None
    ELSE Some(<< <<"start", strftime(self.start_time[1])>>,
                 <<"end", strftime(self.end_time[1])>>,
                 <<"start_local", strftime(self.start_time_local[1])>>,
                 <<"end_local", strftime(self.end_time_local[1])>>,
                 <<"length", self.length>>,
                 <<"segments",
                   [i \in 1..Len(self.polylines) |->
                     [j \in 1..Len(self.polylines[i]) |->
                        [lat |-> self.polylines[i][j].lat,
                         lng |-> self.polylines[i][j].lng]]]>> >>)

\* store_cache as one call: the directory, the file content and the
\* exception it leaves behind
store_cache(self, dirs, file) ==
    LET doc == CacheDocument(self) IN
    IF doc = None
    THEN [dir_exists |-> TRUE, cache_file |-> Some(<<>>), err |-> "AttributeError"]
    ELSE [dir_exists |-> TRUE, cache_file |-> doc, err |-> ""]

\* json.load accepts a file that holds one whole document
json_load_ok(content) ==
    /\ Len(content) = Len(CacheKeys)
    /\ \A i \in 1..Len(CacheKeys) : content[i][1] = CacheKeys[i]

load_cache(self, file) ==
    IF file = None \/ ~json_load_ok(file[1])
    THEN Result(self, "TrackLoadError", {})
    ELSE LET data == file[1] IN
         Result([self EXCEPT
                   !.start_time = Some(strptime(data[1][2])),
                   !.end_time = Some(strptime(data[2][2])),
                   !.start_time_local = Some(strptime(data[3][2])),
                   !.end_time_local = Some(strptime(data[4][2])),
                   !.length = data[5][2],
                   !.polylines =
                       [i \in 1..Len(data[6][2]) |->
                         [j \in 1..Len(data[6][2][i]) |->
                            from_degrees(data[6][2][i][j].lat,
                                         data[6][2][i][j].lng)]]],
                "", {})

----------------------------------------------------------------------------
(* Inputs *)

SeqsUpTo(S, lo, hi) == UNION {[1..k -> S] : k \in lo..hi}

TzOffsets == {0, 3600000}

Points == {<<0, 0>>, <<1, 1>>}
Segments == SeqsUpTo(Points, 1, 2)

GpxObjects ==
    [time_bounds : {<<None, None>>, <<Some(1500), Some(4500)>>},
     segments : SeqsUpTo(Segments, 0, 2),
     moving : {[moving_distance |-> 10, moving_time |-> 2, stopped_time |-> 1],
               [moving_distance |-> 0, moving_time |-> 0, stopped_time |-> 3]}]

File(name, size, parsed) == [name |-> name, size |-> size, parsed |-> parsed]

GpxFiles ==
    {File("empty.gpx", 0, None), File("bad.gpx", 1, None)}
    \cup {File("a.gpx", 1, Some(g)) : g \in GpxObjects}

TcxFiles == {File("empty.tcx", 0, None), File("a.tcx", 1, None)}

\* position records: both coordinates present, one of them 0, one missing
RecordMessages ==
    {[kind |-> "record", position_lat |-> p[1], position_long |-> p[2]] :
        p \in {<<Some(1), Some(1)>>, <<Some(0), Some(1)>>, <<Some(1), Some(0)>>,
               <<None, Some(1)>>, <<Some(1), None>>}}

Session(d, t, v) ==
    [kind |-> "session", start_time |-> 1500, total_elapsed_time |-> 3,
     total_distance |-> d,
     total_moving_time |-> t[1], total_timer_time |-> t[2],
     enhanced_avg_speed |-> v[1], avg_speed |-> v[2]]

SessionMessages ==
    {Session(d, <<Some(2), Some(3)>>, v) :
        d \in {0, 10},
        v \in {<<Some(7), Some(5)>>, <<None, Some(5)>>, <<None, None>>}}
    \cup {Session(d, t, <<Some(7), Some(5)>>) :
        d \in {0, 10},
        t \in {<<None, Some(3)>>, <<Some(0), Some(0)>>, <<None, None>>}}

\* a FIT file: a file-id message, the position records, at most one session
FitObjects ==
    {<<[kind |-> "file_id"]>> \o records \o tail :
        records \in SeqsUpTo(RecordMessages, 0, MaxRecords),
        tail \in {<<>>} \cup {<<m>> : m \in SessionMessages}}

FitFiles ==
    {File("empty.fit", 0, None), File("bad.fit", 1, None)}
    \cup {File("a.fit", 1, Some(f)) : f \in FitObjects}

Activities ==
    [run_id : {7}, start_date_local : {100}, elapsed_time : {3},
     distance : {0, 10},
     summary_polyline : {<<>>, encode(<< <<0, 0>>, <<1, 1>> >>)}]

EnvValues == {None, Some(""), Some("1")}

\* the tracks handed to append: each is what a loader leaves behind
DonorGpx ==
    [load_gpx(NewTrack,
        File("b.gpx", 1,
             Some([time_bounds |-> <<Some(5000), Some(8000)>>,
                   segments |-> << << <<1, 1>>, <<0, 1>> >> >>,
                   moving |-> [moving_distance |-> 10, moving_time |-> 2,
                               stopped_time |-> 1]])), 0).track
     EXCEPT !.special = TRUE]

DonorGpxStill ==
    load_gpx(NewTrack,
        File("c.gpx", 1,
             Some([time_bounds |-> <<Some(5000), Some(9000)>>,
                   segments |-> << << <<0, 0>>, <<0, 1>> >> >>,
                   moving |-> [moving_distance |-> 0, moving_time |-> 0,
                               stopped_time |-> 4]])), 0).track

FitSession(moving, timer, speed) ==
    [kind |-> "session", start_time |-> 5000, total_elapsed_time |-> 3,
     total_distance |-> 10, total_moving_time |-> moving,
     total_timer_time |-> timer,
     enhanced_avg_speed |-> speed, avg_speed |-> Some(5)]

FitPosition == [kind |-> "record", position_lat |-> Some(1), position_long |-> Some(1)]

DonorFit ==
    load_fit(NewTrack,
        File("b.fit", 1, Some(<<FitPosition, FitSession(Some(2), Some(3), Some(7))>>)),
        0).track

DonorFitNoTimer ==
    load_fit(NewTrack,
        File("c.fit", 1, Some(<<FitPosition, FitSession(None, None, None)>>)),
        0).track

DonorDb ==
    load_from_db(NewTrack,
        [run_id |-> 8, start_date_local |-> 5, elapsed_time |-> 3,
         distance |-> 10, summary_polyline |-> <<>>], None, <<>>).track

\* those whose load ended without an error
LoadedDonors == {DonorGpx, DonorGpxStill, DonorDb}

DonorTracks == {DonorGpx, DonorGpxStill, DonorFitNoTimer, DonorDb}

----------------------------------------------------------------------------
(* The caller: construct, load, append*, store, load from the cache *)

NoCall == [op |-> "", arg |-> None]
Call(op, arg) == [op |-> op, arg |-> arg]
Loaded(t, by, err) == [track |-> t, by |-> by, ok |-> err = ""]

ConcIdle == /\ w_pc = "idle" /\ w_written = 0
            /\ old_doc = None /\ observed = None

Init ==
    /\ IGNORE_BEFORE_SAVING \in EnvValues
    /\ track = NewTrack
    /\ phase = "new"
    /\ call = NoCall
    /\ before = NewTrack
    /\ reported = ""
    /\ raised = ""
    /\ lib_calls = {}
    /\ orig = Loaded(NewTrack, "", "")
    /\ donors = <<>>
    /\ appends = 0
    /\ dir_exists = FALSE
    /\ cache_file = None
    /\ stored = Loaded(NewTrack, "", "")
    /\ ConcIdle

ConcVars == <<w_pc, w_written, old_doc, observed>>
FileVars == <<dir_exists, cache_file, stored>>

\* load_gpx, load_tcx and load_fit catch every exception and print it
Parsed(op, file, r) ==
    /\ track' = r.track
    /\ phase' = "loaded"
    /\ call' = Call(op, file)
    /\ before' = track
    /\ reported' = r.err
    /\ raised' = ""
    /\ lib_calls' = lib_calls \cup r.lib
    /\ orig' = Loaded(r.track, op, r.err)
    /\ donors' = <<>>
    /\ UNCHANGED <<IGNORE_BEFORE_SAVING, appends, FileVars, ConcVars>>

LoadGpx ==
    /\ phase = "new"
    /\ \E file \in GpxFiles, tz \in TzOffsets :
          Parsed("load_gpx", file, load_gpx(track, file, tz))

LoadTcx ==
    /\ phase = "new"
    /\ \E file \in TcxFiles : Parsed("load_tcx", file, load_tcx(track, file))

LoadFit ==
    /\ phase = "new"
    /\ \E file \in FitFiles, tz \in TzOffsets :
          Parsed("load_fit", file, load_fit(track, file, tz))

\* load_from_db, load_cache and store_cache let exceptions escape
LoadFromDb ==
    /\ phase = "new"
    /\ \E activity \in Activities :
       \E filtered \in filter_out(activity.summary_polyline) :
          LET r == load_from_db(track, activity, IGNORE_BEFORE_SAVING, filtered) IN
          /\ track' = r.track
          /\ phase' = IF r.err = "" THEN "loaded" ELSE "crashed"
          /\ call' = Call("load_from_db", [activity |-> activity, filtered |-> filtered])
          /\ before' = track
          /\ reported' = ""
          /\ raised' = r.err
          /\ orig' = Loaded(r.track, "load_from_db", r.err)
          /\ donors' = <<>>
          /\ UNCHANGED <<IGNORE_BEFORE_SAVING, lib_calls, appends, FileVars, ConcVars>>

AppendTrack ==
    /\ phase = "loaded"
    /\ appends < MaxAppends
    /\ \E other \in DonorTracks :
          LET r == append(track, other) IN
          /\ track' = r.track
          /\ call' = Call("append", other)
          /\ before' = track
          /\ reported' = r.err
          /\ raised' = ""
          /\ donors' = Append(donors, other)
          /\ appends' = appends + 1
          /\ UNCHANGED <<IGNORE_BEFORE_SAVING, phase, lib_calls, orig, FileVars, ConcVars>>

StoreCache ==
    /\ phase = "loaded"
    /\ LET r == store_cache(track, dir_exists, cache_file) IN
          /\ dir_exists' = r.dir_exists
          /\ cache_file' = r.cache_file
          /\ stored' = [orig EXCEPT !.track = track]
          /\ phase' = IF r.err = "" THEN "stored" ELSE "crashed"
          /\ call' = Call("store_cache", None)
          /\ before' = track
          /\ reported' = ""
          /\ raised' = r.err
          /\ UNCHANGED <<IGNORE_BEFORE_SAVING, track, lib_calls, orig, donors, appends, ConcVars>>

\* a new Track object is filled from the cache file and replaces track
LoadCache ==
    /\ phase = "stored"
    /\ LET r == load_cache(NewTrack, cache_file) IN
          /\ track' = r.track
          /\ phase' = IF r.err = "" THEN "loaded" ELSE "crashed"
          /\ call' = Call("load_cache", None)
          /\ before' = NewTrack
          /\ reported' = ""
          /\ raised' = r.err
          /\ orig' = Loaded(r.track, "load_cache", r.err)
          /\ donors' = <<>>
          /\ UNCHANGED <<IGNORE_BEFORE_SAVING, lib_calls, appends, FileVars, ConcVars>>

Next ==
    \/ LoadGpx
    \/ LoadTcx
    \/ LoadFit
    \/ LoadFromDb
    \/ AppendTrack
    \/ StoreCache
    \/ LoadCache

Spec == Init /\ [][Next]_vars

----------------------------------------------------------------------------
(* One writer running store_cache step by step, one reader running          *)
(* load_cache on the same path.  open(path, "w") truncates the file at      *)
(* once; json.dump hands the document to the file object chunk by chunk;    *)
(* the file object passes what it holds to the file when its buffer fills   *)
(* (any time) and when the with block closes it.                            *)

StorableTracks == {DonorGpx, DonorGpxStill, DonorFit}

InitConc ==
    /\ IGNORE_BEFORE_SAVING = None
    /\ track \in StorableTracks
    /\ phase = "loaded"
    /\ call = NoCall
    /\ before = NewTrack
    /\ reported = ""
    /\ raised = ""
    /\ lib_calls = {}
    /\ orig = Loaded(track, "", "")
    /\ donors = <<>>
    /\ appends = 0
    /\ dir_exists = FALSE
    /\ cache_file = None
    /\ stored = Loaded(NewTrack, "", "")
    /\ ConcIdle

ConcOpen ==
    /\ w_pc = "idle"
    /\ phase = "loaded"
    /\ dir_exists' = TRUE
    /\ old_doc' = cache_file
    /\ cache_file' = Some(<<>>)
    /\ stored' = [orig EXCEPT !.track = track]
    /\ w_written' = 0
    /\ call' = Call("store_cache", None)
    /\ before' = track
    /\ reported' = ""
    /\ IF CacheDocument(track) = None
       THEN /\ w_pc' = "idle"
            /\ raised' = "AttributeError"
            /\ phase' = "crashed"
       ELSE /\ w_pc' = "dump"
            /\ raised' = ""
            /\ phase' = phase
    /\ UNCHANGED <<IGNORE_BEFORE_SAVING, track, lib_calls, orig, donors, appends, observed>>

ConcWrite ==
    /\ w_pc = "dump"
    /\ w_written < Len(CacheDocument(stored.track)[1])
    /\ w_written' = w_written + 1
    /\ UNCHANGED <<IGNORE_BEFORE_SAVING, track, phase, call, before, reported,
                   raised, lib_calls, orig, donors, appends, FileVars, w_pc,
                   old_doc, observed>>

ConcFlush ==
    /\ w_pc = "dump"
    /\ Len(cache_file[1]) < w_written
    /\ cache_file' = Some(SubSeq(CacheDocument(stored.track)[1], 1, w_written))
    /\ UNCHANGED <<IGNORE_BEFORE_SAVING, track, phase, call, before, reported,
                   raised, lib_calls, orig, donors, appends, dir_exists, stored,
                   ConcVars>>

ConcClose ==
    /\ w_pc = "dump"
    /\ w_written = Len(CacheDocument(stored.track)[1])
    /\ cache_file' = CacheDocument(stored.track)
    /\ w_pc' = "idle"
    /\ w_written' = 0
    /\ old_doc' = None
    /\ UNCHANGED <<IGNORE_BEFORE_SAVING, track, phase, call, before, reported,
                   raised, lib_calls, orig, donors, appends, dir_exists, stored,
                   observed>>

ConcAppend ==
    /\ w_pc = "idle"
    /\ AppendTrack

\* the reader: a new Track object, load_cache on the path; json.load reads
\* the file as it is at that moment
ConcLoad ==
    /\ cache_file # None
    /\ observed' = Some([content |-> cache_file,
                         old |-> old_doc,
                         new |-> CacheDocument(stored.track),
                         storing |-> w_pc # "idle",
                         err |-> load_cache(NewTrack, cache_file).err])
    /\ UNCHANGED <<IGNORE_BEFORE_SAVING, track, phase, call, before, reported,
                   raised, lib_calls, orig, donors, appends, FileVars, w_pc,
                   w_written, old_doc>>

NextConc ==
    \/ ConcOpen
    \/ ConcWrite
    \/ ConcFlush
    \/ ConcClose
    \/ ConcAppend
    \/ ConcLoad

SpecConc == InitConc /\ [][NextConc]_vars

----------------------------------------------------------------------------
(* Properties *)

FileParsers == {"load_gpx", "load_tcx", "load_fit"}
Parsers == FileParsers \cup {"load_from_db"}

RECURSIVE SumLength(_)
SumLength(ts) == IF ts = <<>> THEN 0 ELSE Head(ts).length + SumLength(Tail(ts))

\* the flattened coordinate lists of the tracks ts, joined
RECURSIVE Containers(_)
Containers(ts) ==
    IF ts = <<>> THEN <<>>
    ELSE (IF Head(ts).polyline_container = None THEN <<>>
          ELSE Head(ts).polyline_container[1]) \o Containers(Tail(ts))

Populated(t) == DOMAIN t.moving_dict =
                    MovingKeys \cup {"average_speed"}

\* C1: an append that fails (on a track whose load succeeded) leaves every
\* attribute of the receiving track as it was before the call.
C1_MergeAllOrNothing ==
    (call.op = "append" /\ reported # "" /\ orig.ok) => track = before

SpeedConsistent(md) ==
    IF md["moving_time"] > 0
    THEN md["average_speed"] = Ratio(md["distance"], md["moving_time"])
    ELSE md["average_speed"] = <<0, 1>>

\* C2: after one successful parser call and any appends, populated moving
\* statistics have average_speed = distance / moving_time when moving_time
\* > 0, and average_speed = 0 when moving_time = 0.
C2_AverageSpeedInvariant ==
    (orig.by \in Parsers /\ orig.ok /\ Populated(track))
        => SpeedConsistent(track.moving_dict)

\* C3: a read made while store_cache overwrites an existing cache file
\* returns either the whole previous document or the whole new one.
C3_NoHalfWrittenRead ==
    (observed # None /\ observed[1].storing /\ observed[1].old # None)
        => observed[1].content \in {observed[1].old, observed[1].new}

SameSecond(a, b) == a # None /\ b # None /\ strftime(a[1]) = strftime(b[1])

\* C4: for a track a parser produced, store_cache succeeds, and the track
\* load_cache then builds has the same start and end instants (UTC and
\* local, to the second), the same length and the same segments.
C4_CacheRoundTrip ==
    /\ (call.op = "store_cache" /\ stored.by \in Parsers /\ stored.ok)
          => raised = ""
    /\ (call.op = "load_cache" /\ stored.by \in Parsers /\ stored.ok)
          => /\ raised = ""
             /\ SameSecond(track.start_time, stored.track.start_time)
             /\ SameSecond(track.end_time, stored.track.end_time)
             /\ SameSecond(track.start_time_local, stored.track.start_time_local)
             /\ SameSecond(track.end_time_local, stored.track.end_time_local)
             /\ track.length = stored.track.length
             /\ track.polylines = stored.track.polylines

\* C5: a GPX, TCX or FIT load that reports no error leaves a track with
\* length > 0, a start time, an end time and a segment with a point.
C5_ParsedTrackValid ==
    (call.op \in FileParsers /\ reported = "")
        => /\ track.length > 0
           /\ track.start_time # None
           /\ track.end_time # None
           /\ \E i \in 1..Len(track.polylines) : track.polylines[i] # <<>>

EmptyFileError(op) ==
    IF op = "load_gpx" THEN "Empty GPX file"
    ELSE IF op = "load_tcx" THEN "Empty TCX file"
    ELSE "Empty FIT file"

\* C6: load_gpx, load_tcx and load_fit report the empty-file error for a
\* zero-byte file and never hand that file to the format library.
C6_EmptyFileNotParsed ==
    (call.op \in FileParsers /\ call.arg.size = 0)
        => /\ reported = EmptyFileError(call.op)
           /\ \A c \in lib_calls : c[2] # call.arg.name

C6_Witness ==
    /\ call.op = "load_fit"
    /\ call.arg.size = 0
    /\ reported = "Empty FIT file"

LatLngs(coords) ==
    [i \in 1..Len(coords) |-> from_degrees(coords[i][1], coords[i][2])]

\* C7: load_from_db builds the segment from the stored path under either
\* setting of IGNORE_BEFORE_SAVING: filtered and decoded when filtering is
\* on, decoded as stored when it is off; it fails under neither.
C7_DbPathUnderBothToggles ==
    call.op = "load_from_db"
        => /\ raised = ""
           /\ track.polylines =
                <<LatLngs(decode(
                    IF IgnoreBeforeSaving(IGNORE_BEFORE_SAVING)
                    THEN call.arg.activity.summary_polyline
                    ELSE call.arg.filtered))>>

\* C8: the length of a track is the length its loader gave it plus the
\* lengths of the tracks appended since (for A.append(B); A.append(C):
\* A.length + B.length + C.length).
C8_MergeLengthAdditive ==
    track.length = orig.track.length + SumLength(donors)

C8_Witness ==
    /\ Len(donors) = 2
    /\ Populated(orig.track)
    /\ \A i \in 1..2 : Populated(donors[i])
    /\ Len(track.file_names) = 3
    /\ track.length = orig.track.length + donors[1].length + donors[2].length
    /\ donors[1].length > 0
    /\ donors[2].length > 0

\* the coordinates of the position records that have a latitude and a
\* longitude
RECURSIVE PresentPoints(_)
PresentPoints(fit) ==
    IF fit = <<>> THEN <<>>
    ELSE (IF /\ Head(fit).kind = "record"
             /\ Head(fit).position_lat # None
             /\ Head(fit).position_long # None
          THEN <<<<Head(fit).position_lat[1], Head(fit).position_long[1]>>>>
          ELSE <<>>) \o PresentPoints(Tail(fit))

\* C9: a load_fit that runs to its end has put a position record's
\* coordinate on the flattened list exactly when the record has both a
\* latitude and a longitude, 0 included.
C9_FitRecordBothPresent ==
    (call.op = "load_fit" /\ call.arg.parsed # None /\ reported = "")
        => track.polyline_container = Some(PresentPoints(call.arg.parsed[1]))

\* an append gets as far as extending the flattened list when both tracks
\* have the three summed statistics and a flattened list
ReachesExtend(receiver, donor) ==
    /\ MovingKeys \subseteq DOMAIN receiver.moving_dict
    /\ MovingKeys \subseteq DOMAIN donor.moving_dict
    /\ receiver.polyline_container # None
    /\ donor.polyline_container # None

SegmentsKept ==
    /\ track.polylines = orig.track.polylines
    /\ bbox(track) = bbox(orig.track)
    /\ CacheDocument(track) # None
          => CacheDocument(track)[1][6] = CacheDocument([orig.track EXCEPT
                    !.end_time = track.end_time])[1][6]

====
